---- MODULE Spec2Model ----
(***************************************************************************)
(* A model of the cell codec, the asset store, the spreadsheet            *)
(* persistence, the wiki renderer and the package bundler of               *)
(* ExcelLikeWikiConverter (src/utils.py, src/file_handler.py,              *)
(* src/wiki_exporter.py, src/app.py).                                      *)
(*                                                                         *)
(* A Python str is a sequence of one-character strings: "x\n[IMG] a" is    *)
(* <<"x", "\n", "[", "I", "M", "G", "]", " ", "a">>.                         *)
(***************************************************************************)
EXTENDS Integers, Sequences, FiniteSets, TLC

(***************************************************************************)
(* Bounds of the model.                                                    *)
(***************************************************************************)
\* texts are concatenations of at most MaxPieces pieces of TextPieces
MaxPieces == 1
\* image lists given to encode and merge have at most MaxImages paths
MaxImages == 2
\* generate_column_headers is called with counts 0 .. MaxCount
MaxCount == 60

(***************************************************************************)
(* Strings.                                                                *)
(***************************************************************************)
\* str.strip() and the regex class \s: the whitespace of the model
Whitespace == {" ", "\n"}

\* the characters [^\[\]] excludes
Brackets == {"[", "]"}

RECURSIVE Concat(_)
\* "".join(parts)
Concat(parts) ==
    IF parts = <<>> THEN <<>> ELSE Head(parts) \o Concat(Tail(parts))

RECURSIVE Join(_, _)
\* sep.join(parts)
Join(sep, parts) ==
    IF parts = <<>> THEN <<>>
    ELSE IF Len(parts) = 1 THEN parts[1]
    ELSE parts[1] \o sep \o Join(sep, Tail(parts))

RECURSIVE LStrip(_)
LStrip(s) ==
    IF s # <<>> /\ Head(s) \in Whitespace THEN LStrip(Tail(s)) ELSE s

RECURSIVE RStrip(_)
RStrip(s) ==
    IF s # <<>> /\ s[Len(s)] \in Whitespace
    THEN RStrip(SubSeq(s, 1, Len(s) - 1)) ELSE s

\* str.strip()
Strip(s) == RStrip(LStrip(s))

RECURSIVE SplitFrom(_, _, _, _)
\* the pieces of s from position i on, cur being the piece collected so far
SplitFrom(s, sep, i, cur) ==
    IF i > Len(s) THEN <<cur>>
    ELSE IF s[i] = sep THEN <<cur>> \o SplitFrom(s, sep, i + 1, <<>>)
    ELSE SplitFrom(s, sep, i + 1, Append(cur, s[i]))

\* str.split(sep) for a one-character sep: always at least one piece
Split(s, sep) == SplitFrom(s, sep, 1, <<>>)

\* s[i:].startswith(p), i a 1-based position
StartsWithAt(s, i, p) ==
    /\ i + Len(p) - 1 <= Len(s)
    /\ \A k \in 1..Len(p) : s[i + k - 1] = p[k]

TagIMG == <<"[", "I", "M", "G", "]">>
TagIMGS == <<"[", "I", "M", "G", "S", "]">>

\* TagLenAt for the pattern \[IMGS? , which leaves out the closing bracket
TagLenAt_Unclosed(s, i) ==
    IF StartsWithAt(s, i, <<"[", "I", "M", "G", "S">>) THEN 5
    ELSE IF StartsWithAt(s, i, <<"[", "I", "M", "G">>) THEN 4
    ELSE 0

\* the length of what \[IMGS?\] matches at position i, 0 when it does not match
TagLenAt(s, i) ==
    IF StartsWithAt(s, i, TagIMG) THEN Len(TagIMG)
    ELSE IF StartsWithAt(s, i, TagIMGS) THEN Len(TagIMGS)
    ELSE 0

RECURSIVE RunEnd(_, _, _)
\* the first position >= j holding a character of stop, Len(s) + 1 if none
RunEnd(s, j, stop) ==
    IF j > Len(s) \/ s[j] \in stop THEN j ELSE RunEnd(s, j + 1, stop)

RECURSIVE WsEnd(_, _)
\* the first position >= j holding no whitespace: where a greedy \s* ends
WsEnd(s, j) ==
    IF j <= Len(s) /\ s[j] \in Whitespace THEN WsEnd(s, j + 1) ELSE j

(***************************************************************************)
(* Utils.extract_image_paths (src/utils.py:43-68).                         *)
(***************************************************************************)
RECURSIVE FindAllFrom(_, _)
\* re.findall(r'\[IMGS?\]\s*([^\[\]]+)', s) scanning from position i: the
\* groups of the non-overlapping matches, left to right.  After the tag at
\* i, j is where the tag ends, m where the run of non-bracket characters
\* from j ends and k where the greedy \s* ends.  The group needs one
\* character: with k < m it is s[k..m-1]; with k = m > j the \s* gives its
\* last character back and the group is that one whitespace character; with
\* m = j there is no match at i.
FindAllFrom(s, i) ==
    IF i > Len(s) THEN <<>>
    ELSE LET t == TagLenAt(s, i)
             j == i + t
             m == RunEnd(s, j, Brackets)
             k == WsEnd(s, j)
         IN  IF t = 0 \/ m = j THEN FindAllFrom(s, i + 1)
             ELSE IF k < m THEN <<SubSeq(s, k, m - 1)>> \o FindAllFrom(s, m)
             ELSE <<SubSeq(s, m - 1, m - 1)>> \o FindAllFrom(s, m)

RECURSIVE StripNonEmpty_NoStrip(_)
\* StripNonEmpty without the strip of the kept pieces:
\* [path for path in parts if path.strip()]
StripNonEmpty_NoStrip(parts) ==
    IF parts = <<>> THEN <<>>
    ELSE (IF Strip(Head(parts)) = <<>> THEN <<>> ELSE <<Head(parts)>>)
             \o StripNonEmpty_NoStrip(Tail(parts))

RECURSIVE StripNonEmpty(_)
\* [path.strip() for path in parts if path.strip()]
StripNonEmpty(parts) ==
    IF parts = <<>> THEN <<>>
    ELSE LET p == Strip(Head(parts))
         IN  (IF p = <<>> THEN <<>> ELSE <<p>>) \o StripNonEmpty(Tail(parts))

RECURSIVE PathsOfMatches(_)
\* the loop over the matches: split on ';', strip, drop the empty ones
PathsOfMatches(matches) ==
    IF matches = <<>> THEN <<>>
    ELSE StripNonEmpty(Split(Head(matches), ";"))
             \o PathsOfMatches(Tail(matches))

extract_image_paths(cell_value) ==
    IF cell_value = <<>> THEN <<>>
    ELSE PathsOfMatches(FindAllFrom(cell_value, 1))

(***************************************************************************)
(* Utils.clean_text_content (src/utils.py:70-88).                          *)
(***************************************************************************)
RECURSIVE RemoveTagsFrom_NonEmptyRun(_, _)
\* RemoveTagsFrom for the pattern \[IMGS?\][^\[\]]+ : a tag with nothing
\* after it is kept
RemoveTagsFrom_NonEmptyRun(s, i) ==
    IF i > Len(s) THEN <<>>
    ELSE LET t == TagLenAt(s, i)
             m == RunEnd(s, i + t, Brackets)
         IN  IF t = 0 \/ m = i + t
             THEN <<s[i]>> \o RemoveTagsFrom_NonEmptyRun(s, i + 1)
             ELSE RemoveTagsFrom_NonEmptyRun(s, m)

RECURSIVE RemoveTagsFrom(_, _)
\* re.sub(r'\[IMGS?\][^\[\]]*', '', s) from position i: a tag is removed
\* with the run of non-bracket characters after it, also when that run is
\* empty
RemoveTagsFrom(s, i) ==
    IF i > Len(s) THEN <<>>
    ELSE LET t == TagLenAt(s, i)
         IN  IF t = 0 THEN <<s[i]>> \o RemoveTagsFrom(s, i + 1)
             ELSE RemoveTagsFrom(s, RunEnd(s, i + t, Brackets))

RECURSIVE CollapseNewlines(_)
\* re.sub(r'\n+', '\n', s)
CollapseNewlines(s) ==
    IF Len(s) < 2 THEN s
    ELSE IF s[1] = "\n" /\ s[2] = "\n" THEN CollapseNewlines(Tail(s))
    ELSE <<s[1]>> \o CollapseNewlines(Tail(s))

\* clean_text_content without the removal of the tags
clean_text_content_KeepTags(cell_value) ==
    IF cell_value = <<>> THEN <<>>
    ELSE Strip(CollapseNewlines(cell_value))

clean_text_content(cell_value) ==
    IF cell_value = <<>> THEN <<>>
    ELSE Strip(CollapseNewlines(RemoveTagsFrom(cell_value, 1)))

(***************************************************************************)
(* Utils.format_cell_with_images (src/utils.py:90-125).                    *)
(***************************************************************************)
\* os.getcwd() as the list of its path components: the reference root /w
CwdParts == << <<"w">> >>

\* os.path.isabs(path)
IsAbs(path) == path # <<>> /\ Head(path) = "/"

RECURSIVE NormParts(_, _)
\* posixpath.normpath of an absolute path, as components: empty and "."
\* components are dropped, ".." removes the component before it and is
\* dropped at the root
NormParts(parts, acc) ==
    IF parts = <<>> THEN acc
    ELSE LET c == Head(parts)
         IN  IF c = <<>> \/ c = <<".">> THEN NormParts(Tail(parts), acc)
             ELSE IF c = <<".", ".">>
                  THEN NormParts(Tail(parts),
                           IF acc = <<>> THEN acc
                           ELSE SubSeq(acc, 1, Len(acc) - 1))
             ELSE NormParts(Tail(parts), Append(acc, c))

RECURSIVE CommonPrefixLen(_, _)
CommonPrefixLen(a, b) ==
    IF a = <<>> \/ b = <<>> \/ Head(a) # Head(b) THEN 0
    ELSE 1 + CommonPrefixLen(Tail(a), Tail(b))

\* os.path.relpath(path, start=os.getcwd()); a relative path is first made
\* absolute by os.path.abspath
RelPath(path) ==
    LET path_list == NormParts(Split(path, "/"),
                               IF IsAbs(path) THEN <<>> ELSE CwdParts)
        i == CommonPrefixLen(CwdParts, path_list)
        rel_list == [k \in 1..(Len(CwdParts) - i) |-> <<".", ".">>]
                        \o SubSeq(path_list, i + 1, Len(path_list))
    IN  IF rel_list = <<>> THEN <<".">> ELSE Join(<<"/">>, rel_list)

\* the loop of src/utils.py:106-113
RelativePaths(image_paths) ==
    [k \in 1..Len(image_paths) |->
        IF IsAbs(image_paths[k]) THEN RelPath(image_paths[k])
        ELSE image_paths[k]]

format_cell_with_images(text_content, image_paths) ==
    IF image_paths = <<>> THEN text_content
    ELSE LET relative_paths == RelativePaths(image_paths)
             image_tag ==
                 IF Len(relative_paths) = 1
                 THEN TagIMG \o <<" ">> \o relative_paths[1]
                 ELSE TagIMGS \o <<" ">> \o Join(<<";", " ">>, relative_paths)
         IN  IF text_content # <<>> /\ Strip(text_content) # <<>>
             THEN Strip(text_content) \o <<"\n">> \o image_tag
             ELSE image_tag

(***************************************************************************)
(* Utils.add_images_to_cell_incremental (src/utils.py:155-187).            *)
(***************************************************************************)
\* x in list
InSeq(x, list) == \E k \in 1..Len(list) : list[k] = x

\* UniqueImagesLoop without the membership test: every image is appended
UniqueImagesLoop_NoDedup(all_images, unique_images) ==
    unique_images \o all_images

RECURSIVE UniqueImagesLoop(_, _)
\* the loop of src/utils.py:180-183
UniqueImagesLoop(all_images, unique_images) ==
    IF all_images = <<>> THEN unique_images
    ELSE UniqueImagesLoop(Tail(all_images),
             IF InSeq(Head(all_images), unique_images) THEN unique_images
             ELSE Append(unique_images, Head(all_images)))

\* sheet.set_cell_data(row, col, v): rows and columns are 1-based here
SetCellData(sh, row, col, v) == [sh EXCEPT ![row][col] = v]

\* add_images_to_cell_incremental without the early return on an empty list
add_images_to_cell_incremental_NoReturn(sh, row, col, new_image_paths) ==
    LET current_value == sh[row][col]
        text_content == clean_text_content(current_value)
        existing_images == extract_image_paths(current_value)
        all_images == existing_images \o new_image_paths
        unique_images == UniqueImagesLoop(all_images, <<>>)
        new_value == format_cell_with_images(text_content, unique_images)
    IN  SetCellData(sh, row, col, new_value)

\* add_images_to_cell_incremental that formats the images without the text
add_images_to_cell_incremental_DropText(sh, row, col, new_image_paths) ==
    IF new_image_paths = <<>> THEN sh
    ELSE LET current_value == sh[row][col]
             existing_images == extract_image_paths(current_value)
             unique_images == UniqueImagesLoop(existing_images \o new_image_paths, <<>>)
         IN  SetCellData(sh, row, col, format_cell_with_images(<<>>, unique_images))

\* the sheet after the call
add_images_to_cell_incremental(sh, row, col, new_image_paths) ==
    IF new_image_paths = <<>> THEN sh
    ELSE LET current_value == sh[row][col]
             text_content == clean_text_content(current_value)
             existing_images == extract_image_paths(current_value)
             all_images == existing_images \o new_image_paths
             unique_images == UniqueImagesLoop(all_images, <<>>)
             new_value == format_cell_with_images(text_content, unique_images)
         IN  SetCellData(sh, row, col, new_value)

(***************************************************************************)
(* Utils.generate_column_headers (src/utils.py:18-41).                     *)
(***************************************************************************)
Letters ==
    <<"A", "B", "C", "D", "E", "F", "G", "H", "I", "J", "K", "L", "M",
      "N", "O", "P", "Q", "R", "S", "T", "U", "V", "W", "X", "Y", "Z">>

\* chr(65 + k) for k in 0..25
ChrUpper(k) == Letters[k + 1]

RECURSIVE HeaderLoop_NoAdjust(_, _)
\* HeaderLoop without the num -= 1 after the division: plain base 26
HeaderLoop_NoAdjust(num, header) ==
    LET h == <<ChrUpper(num % 26)>> \o header
        n == num \div 26
    IN  IF n = 0 THEN h ELSE HeaderLoop_NoAdjust(n, h)

RECURSIVE HeaderLoop(_, _)
\* the while loop of src/utils.py:33-39
HeaderLoop(num, header) ==
    LET h == <<ChrUpper(num % 26)>> \o header
        n == num \div 26
    IN  IF n = 0 THEN h ELSE HeaderLoop(n - 1, h)

generate_column_headers(cnt) == [k \in 1..cnt |-> HeaderLoop(k - 1, <<>>)]

(***************************************************************************)
(* Paths, directories and the clock.                                       *)
(***************************************************************************)
RECURSIVE LastIndexOf(_, _, _)
\* the last position <= i of s holding ch, 0 if none
LastIndexOf(s, ch, i) ==
    IF i = 0 THEN 0
    ELSE IF s[i] = ch THEN i ELSE LastIndexOf(s, ch, i - 1)

\* os.path.basename(path)
Basename(path) ==
    SubSeq(path, LastIndexOf(path, "/", Len(path)) + 1, Len(path))

\* os.path.dirname(path)
Dirname(path) ==
    LET i == LastIndexOf(path, "/", Len(path))
        head == SubSeq(path, 1, i)
    IN  IF head # <<>> /\ \E k \in 1..Len(head) : head[k] # "/"
        THEN LET RECURSIVE DropSlashes(_)
                 DropSlashes(h) ==
                     IF h # <<>> /\ h[Len(h)] = "/"
                     THEN DropSlashes(SubSeq(h, 1, Len(h) - 1)) ELSE h
             IN  DropSlashes(head)
        ELSE head

\* where os.path.splitext splits a file name (one without '/'): the
\* position of its last '.', unless only dots come before it; 0 when the
\* name has no extension
ExtIndex(name) ==
    LET d == LastIndexOf(name, ".", Len(name))
    IN  IF d > 0 /\ \E k \in 1..(d - 1) : name[k] # "." THEN d ELSE 0

\* os.path.splitext(name)[0]
SplitextRoot(name) ==
    IF ExtIndex(name) = 0 THEN name ELSE SubSeq(name, 1, ExtIndex(name) - 1)

\* os.path.splitext(name)[1]
SplitextExt(name) ==
    IF ExtIndex(name) = 0 THEN <<>> ELSE SubSeq(name, ExtIndex(name), Len(name))

\* os.path.join(a, b)
PathJoin(a, b) ==
    IF IsAbs(b) THEN b
    ELSE IF a = <<>> \/ a[Len(a)] = "/" THEN a \o b
    ELSE a \o <<"/">> \o b

Digits == <<"0", "1", "2", "3", "4", "5", "6", "7", "8", "9">>

\* datetime.now().strftime("%Y%m%d_%H%M%S") at second t of the minute the
\* model runs in: the date, hour and minute are one token, the seconds are
\* two digits
Strftime(t) == <<"20261103_2130", Digits[(t \div 10) + 1], Digits[(t % 10) + 1]>>

\* f"{name}_{timestamp}{ext}" for the file name file
TimestampedName(file, t) ==
    SplitextRoot(file) \o <<"_">> \o Strftime(t) \o SplitextExt(file)

\* the application's asset directory, relative to the working directory
AssetsDir == <<"a", "s", "s", "e", "t", "s">>

\* a directory is a function from the names of its regular files to their
\* bytes; shutil.copy and shutil.copy2 create the file or replace its bytes
EmptyDir == <<>>

\* CopyInto that empties the directory before it writes the file
CopyInto_Replace(dir, name, bytes) == (name :> bytes)

CopyInto(dir, name, bytes) == (name :> bytes) @@ dir

PicPng == <<"p", "i", "c", ".", "p", "n", "g">>

\* the files the user can pick: two different images with one basename
SourceFiles ==
    (<<"/", "u", "/">> \o PicPng :> 1) @@ (<<"/", "v", "/">> \o PicPng :> 2)

\* a path the user can pick that names no file
MissingSource == <<"/", "u", "/", "n", "o", ".", "p", "n", "g">>

\* the times the n calls of datetime.now() of one operation return when the
\* operation starts at second t and the clock ticks at most once meanwhile,
\* before the call of index split + 1
NowTimes(n, t, split) == [k \in 1..n |-> IF k <= split THEN t ELSE t + 1]

(***************************************************************************)
(* Utils.copy_images_to_assets (src/utils.py:127-153).                     *)
(***************************************************************************)
RECURSIVE CopyImagesLoop(_, _, _, _)
\* the loop over image_paths: st is [dir, relative_paths] so far, times[k]
\* what datetime.now() gives when image_paths[k] is copied
CopyImagesLoop(image_paths, st, times, k) ==
    IF k > Len(image_paths) THEN st
    ELSE LET image_path == image_paths[k]
         IN  IF image_path \in DOMAIN SourceFiles
             THEN LET base_name == Basename(image_path)
                      dest_name == TimestampedName(base_name, times[k])
                      dest_path == PathJoin(AssetsDir, dest_name)
                  IN  CopyImagesLoop(image_paths,
                          [dir |-> CopyInto(st.dir, dest_name,
                                            SourceFiles[image_path]),
                           relative_paths |->
                               Append(st.relative_paths, RelPath(dest_path))],
                          times, k + 1)
             ELSE CopyImagesLoop(image_paths, st, times, k + 1)

\* [dir |-> the asset directory after the call, relative_paths |-> what the
\* call returns]
copy_images_to_assets(image_paths, assets_dir, times) ==
    CopyImagesLoop(image_paths, [dir |-> assets_dir, relative_paths |-> <<>>],
                   times, 1)

(***************************************************************************)
(* The spreadsheet file, as xlsxwriter writes it and pandas reads it.      *)
(***************************************************************************)
\* the greatest element of a non-empty set of numbers, 0 for the empty set
Max(S) == IF S = {} THEN 0 ELSE CHOOSE x \in S : \A y \in S : y <= x

\* f"{file_base}_assets" next to filename (src/file_handler.py:76-78 and
\* 205-207)
ExcelAssetsDir(filename) ==
    PathJoin(Dirname(filename),
             SplitextRoot(Basename(filename)) \o <<"_", "a", "s", "s", "e", "t", "s">>)

\* the cells worksheet.write puts into the sheet: row 0 holds the headers,
\* row r the truthy cells of data[r]; columns count from 1
WrittenCells(hdrs, data) ==
    LET where == { <<0, c>> : c \in 1..Len(hdrs) }
                     \cup UNION { { <<r, c>> : c \in { d \in 1..Len(data[r]) : data[r][d] # <<>> } }
                                  : r \in 1..Len(data) }
    IN  [rc \in where |-> IF rc[1] = 0 THEN hdrs[rc[2]] ELSE data[rc[1]][rc[2]]]

\* the thumbnails worksheet.insert_image embeds: image i (from 0) of the
\* cell at (r, c), when a file named like it is in the directory given
InsertedImages(data, excel_assets) ==
    UNION { UNION { { [row |-> r, col |-> c,
                       image |-> Basename(extract_image_paths(data[r][c])[k]),
                       y_offset |-> 5 + (k - 1) * 50]
                      : k \in { n \in 1..Len(extract_image_paths(data[r][c])) :
                                  Basename(extract_image_paths(data[r][c])[n])
                                      \in DOMAIN excel_assets } }
                    : c \in { d \in 1..Len(data[r]) : data[r][d] # <<>> } }
            : r \in 1..Len(data) }

\* the strings pandas reads as missing values unless keep_default_na=False is
\* passed (pd.read_excel at src/file_handler.py:175 does not pass it), as far
\* as the cells of the model spell them
NaValues == { <<"N", "A">>, <<"N", "U", "L", "L">> }

\* a missing value of the DataFrame
NaN == <<"NaN">>

\* pd.read_excel(filename, header=0, dtype=str): [columns, values], the
\* header row and the rows below it as far as cells were written, a cell
\* never written and a cell holding a default NA string being NaN
read_excel(book) ==
    LET nrows == Max({ rc[1] : rc \in DOMAIN book.cells })
        ncols == Max({ rc[2] : rc \in DOMAIN book.cells })
    IN  [columns |-> [c \in 1..ncols |->
                         IF <<0, c>> \in DOMAIN book.cells
                         THEN book.cells[<<0, c>>] ELSE <<"Unnamed">>],
         values |-> [r \in 1..nrows |-> [c \in 1..ncols |->
                         IF <<r, c>> \in DOMAIN book.cells
                              /\ book.cells[<<r, c>>] \notin NaValues
                         THEN book.cells[<<r, c>>] ELSE NaN]]]

\* df.fillna("").values.tolist()
FillNa(values) ==
    [r \in 1..Len(values) |-> [c \in 1..Len(values[r]) |->
        IF values[r][c] = NaN THEN <<>> ELSE values[r][c]]]

(***************************************************************************)
(* FileHandler._save_to_excel_file (src/file_handler.py:62-149).           *)
(***************************************************************************)
\* CopyAllInto that replaces the directory dst by the files of src
CopyAllInto_Replace(src, dst) == src

\* the files of src copied over those of dst (src/file_handler.py:84-90)
CopyAllInto(src, dst) ==
    [n \in DOMAIN src \cup DOMAIN dst |-> IF n \in DOMAIN src THEN src[n] ELSE dst[n]]

\* [books, dirs] after saving the grid (hdrs, data) to filename with the
\* asset store holding store
_save_to_excel_file(filename, hdrs, data, store, bks, drs) ==
    LET excel_assets_dir == ExcelAssetsDir(filename)
        before == IF excel_assets_dir \in DOMAIN drs
                  THEN drs[excel_assets_dir] ELSE EmptyDir
        copied == CopyAllInto(store, before)
        book == [cells |-> WrittenCells(hdrs, data),
                 images |-> InsertedImages(data, copied)]
    IN  [books |-> (filename :> book) @@ bks,
         dirs |-> (excel_assets_dir :> copied) @@ drs]

(***************************************************************************)
(* FileHandler._load_from_excel_file (src/file_handler.py:161-243).        *)
(***************************************************************************)
\* the floor of the loaded grid (src/file_handler.py:190-191)
MinRows == 100
MinCols == 20

RECURSIVE SyncLoop(_, _, _, _, _)
\* the loop that copies the files of a directory into the asset store, in
\* the order os.listdir gave them: a file whose name the store already has
\* is copied under its name with a timestamp
SyncLoop(src, order, store, times, k) ==
    IF k > Len(order) THEN store
    ELSE LET file == order[k]
             dst == IF file \in DOMAIN store
                    THEN TimestampedName(file, times[k]) ELSE file
         IN  SyncLoop(src, order, CopyInto(store, dst, src[file]), times, k + 1)

\* LoadSyncAssets that copies only the files whose names the store lacks
LoadSyncAssets_SkipExisting(src, order, store, times) ==
    [n \in DOMAIN src \cup DOMAIN store |->
        IF n \in DOMAIN store THEN store[n] ELSE src[n]]

\* src/file_handler.py:210-227: the asset store after the sync from the
\* spreadsheet's asset directory
LoadSyncAssets(src, order, store, times) == SyncLoop(src, order, store, times, 1)

\* PadData that gives the grid the size of the floor whatever the data
PadData_Truncate(data, min_rows, min_cols) ==
    [r \in 1..MinRows |-> [c \in 1..MinCols |->
        IF r <= Len(data) /\ c <= Len(data[r]) THEN data[r][c] ELSE <<>>]]

\* src/file_handler.py:189-199: rows padded to min_cols, rows added up to
\* min_rows
PadData(data, min_rows, min_cols) ==
    [r \in 1..min_rows |-> [c \in 1..min_cols |->
        IF r <= Len(data) /\ c <= Len(data[r]) THEN data[r][c] ELSE <<>>]]

\* src/file_handler.py:173-202: [sheet, headers], the data and the headers
\* the widget is given when the workbook book is loaded
LoadData(book) ==
    LET df == read_excel(book)
        hdrs == df.columns
        data == FillNa(df.values)
        min_rows == IF Len(data) > MinRows THEN Len(data) ELSE MinRows
        min_cols == IF Len(hdrs) > MinCols THEN Len(hdrs) ELSE MinCols
    IN  [sheet |-> PadData(data, min_rows, min_cols),
         headers |-> generate_column_headers(min_cols)]

\* the orders os.listdir can give the files of dir
RECURSIVE Orders(_)
Orders(names) ==
    IF names = {} THEN { <<>> }
    ELSE UNION { { <<n>> \o q : q \in Orders(names \ {n}) } : n \in names }

(***************************************************************************)
(* WikiExporter (src/wiki_exporter.py).                                    *)
(***************************************************************************)
\* "h2. <title>\n\n", the title being one token
WikiHeading == <<"h2. ", "sheet-data", "\n", "\n">>

\* "\nh3. <title>\n" and the line that asks to upload the files below
WikiFilesHeading == <<"\n", "h3. ", "image-files", "\n">>
WikiFilesHint == <<"upload-these-files", "\n", "\n">>

\* the characters of file names in code point order; the token holding the
\* date of a timestamp sorts as its first character '2' does
CharOrder ==
    <<".", "/", "0", "1", "20261103_2130", "2", "3", "4", "5", "6", "7", "8",
      "9", "_", "a", "b", "c", "d", "e", "f", "g", "h", "i", "j", "k", "l",
      "m", "n", "o", "p", "q", "r", "s", "t", "u", "v", "w", "x", "y", "z">>

CharRank(ch) ==
    IF \E k \in 1..Len(CharOrder) : CharOrder[k] = ch
    THEN CHOOSE k \in 1..Len(CharOrder) : CharOrder[k] = ch
    ELSE 0

RECURSIVE StrLess(_, _)
\* a < b for two Python strings
StrLess(a, b) ==
    IF b = <<>> THEN FALSE
    ELSE IF a = <<>> THEN TRUE
    ELSE IF Head(a) = Head(b) THEN StrLess(Tail(a), Tail(b))
    ELSE CharRank(Head(a)) < CharRank(Head(b))

RECURSIVE Sorted(_)
\* sorted(S) for a set S of strings
Sorted(S) ==
    IF S = {} THEN <<>>
    ELSE LET least == CHOOSE x \in S : \A y \in S \ {x} : StrLess(x, y)
         IN  <<least>> \o Sorted(S \ {least})

RECURSIVE ReplaceNewlines(_)
\* clean_text.replace("\n", "\\\\"): every newline becomes two backslashes
ReplaceNewlines(s) ==
    IF s = <<>> THEN <<>>
    ELSE (IF Head(s) = "\n" THEN <<"\\", "\\">> ELSE <<Head(s)>>)
             \o ReplaceNewlines(Tail(s))

\* "!name!" for the images of image_paths that exist
ImageRefs(image_paths, existing) ==
    LET RECURSIVE Refs(_)
        Refs(k) ==
            IF k > Len(image_paths) THEN <<>>
            ELSE (IF image_paths[k] \in existing
                  THEN << <<"!">> \o Basename(image_paths[k]) \o <<"!">> >>
                  ELSE <<>>) \o Refs(k + 1)
    IN  Refs(1)

\* WikiCellContent with the image markers joined by a space
WikiCellContent_SpaceJoin(cell_value, existing) ==
    IF cell_value = <<>> THEN <<>>
    ELSE LET clean_text == clean_text_content(cell_value)
             text_part == IF clean_text # <<>> THEN ReplaceNewlines(clean_text)
                          ELSE <<>>
             image_refs == ImageRefs(extract_image_paths(cell_value), existing)
         IN  IF image_refs = <<>> THEN text_part
             ELSE IF text_part # <<>>
                  THEN text_part \o <<"|">> \o Join(<<" ">>, image_refs)
             ELSE Join(<<" ">>, image_refs)

\* the cell_content of src/wiki_exporter.py:47-65
WikiCellContent(cell_value, existing) ==
    IF cell_value = <<>> THEN <<>>
    ELSE LET clean_text == clean_text_content(cell_value)
             text_part == IF clean_text # <<>> THEN ReplaceNewlines(clean_text)
                          ELSE <<>>
             image_refs == ImageRefs(extract_image_paths(cell_value), existing)
         IN  IF image_refs = <<>> THEN text_part
             ELSE IF text_part # <<>>
                  THEN text_part \o <<"|">> \o Join(<<"|">>, image_refs)
             ELSE Join(<<"|">>, image_refs)

\* any(cell for cell in row_data)
RowHasContent(row_data) == \E c \in 1..Len(row_data) : row_data[c] # <<>>

\* WikiRow without the bar that closes the row
WikiRow_NoClosingBar(row_cells) == <<"|">> \o Join(<<"|">>, row_cells) \o <<"\n">>

\* "|" + "|".join(row_cells) + "|\n"
WikiRow(row_cells) == <<"|">> \o Join(<<"|">>, row_cells) \o <<"|", "\n">>

\* "||" + "||".join(headers) + "||\n"
WikiHeaderRow(hdrs) ==
    <<"|", "|">> \o Join(<<"|", "|">>, hdrs) \o <<"|", "|", "\n">>

\* the data rows, one for each row that has a truthy cell
WikiDataRows(data, existing) ==
    LET RECURSIVE Rows(_)
        Rows(r) ==
            IF r > Len(data) THEN <<>>
            ELSE (IF RowHasContent(data[r])
                  THEN << WikiRow([c \in 1..Len(data[r]) |->
                                      WikiCellContent(data[r][c], existing)]) >>
                  ELSE <<>>) \o Rows(r + 1)
    IN  Rows(1)

\* the image_files set of src/wiki_exporter.py:72-79
WikiImageFiles(data, existing) ==
    UNION { UNION { { Basename(q) : q \in { extract_image_paths(data[r][c])[k] :
                                          k \in 1..Len(extract_image_paths(data[r][c])) }
                                       \cap existing }
                    : c \in 1..Len(data[r]) }
            : r \in 1..Len(data) }

\* WikiExporter.get_wiki_content: the list wiki_content, whose join is the
\* text returned; existing is the set of paths os.path.exists answers True for
get_wiki_content(hdrs, data, existing) ==
    LET files == Sorted(WikiImageFiles(data, existing))
    IN  <<WikiHeading, WikiHeaderRow(hdrs)>>
            \o WikiDataRows(data, existing)
            \o <<WikiFilesHeading, WikiFilesHint>>
            \o [k \in 1..Len(files) |-> <<"*", " ">> \o files[k] \o <<"\n">>]

\* WikiExporter._export_wiki_sync: the list written to the file
_export_wiki_sync(hdrs, data) ==
    <<WikiHeading, WikiHeaderRow(hdrs)>> \o WikiDataRows(data, {})

(***************************************************************************)
(* FileHandler.export_package and import_package                           *)
(* (src/file_handler.py:245-398).                                          *)
(***************************************************************************)
\* FileHandler._save_excel_sync: the workbook written, cells only
_save_excel_sync(hdrs, data) ==
    [cells |-> WrittenCells(hdrs, data), images |-> {}]

\* the fixed entry names of the archive; the stem of both is one token
BookEntry == <<"sheet-data", ".", "x", "l", "s", "x">>
WikiEntry == <<"sheet-data", "_", "w", "i", "k", "i", ".", "t", "x", "t">>

\* an archive: its image entries, its workbook entries and its text
\* entries, each a function from the entry's name to its content.
\* export_package: every file of the asset store under assets/, the
\* workbook and the wiki text
export_package(hdrs, data, store) ==
    [images |-> [n \in { RelPath(PathJoin(AssetsDir, f)) : f \in DOMAIN store } |->
                    store[Basename(n)]],
     books |-> (BookEntry :> _save_excel_sync(hdrs, data)),
     texts |-> (WikiEntry :> _export_wiki_sync(hdrs, data))]

\* file.endswith((".xlsx", ".xls"))
IsExcelName(name) ==
    \/ (Len(name) >= 5 /\ SubSeq(name, Len(name) - 4, Len(name)) = <<".", "x", "l", "s", "x">>)
    \/ (Len(name) >= 4 /\ SubSeq(name, Len(name) - 3, Len(name)) = <<".", "x", "l", "s">>)

\* the entries that can come first in excel_files: os.walk visits the
\* extraction root before its subdirectories, and each directory's files in
\* the order os.listdir gives
FirstExcelFiles(zip) ==
    LET all == { n \in DOMAIN zip.images \cup DOMAIN zip.books \cup DOMAIN zip.texts :
                   IsExcelName(n) }
        top == { n \in all : Dirname(n) = <<>> }
    IN  IF top # {} THEN top ELSE all

\* the files directly inside the directory dir of the extracted archive
ExtractedDir(zip, dir) ==
    [f \in { Basename(n) : n \in { m \in DOMAIN zip.images : Dirname(m) = dir } } |->
        zip.images[PathJoin(dir, f)]]

\* tempfile.TemporaryDirectory(): the scratch directory of one import
TempDir == <<"/", "t", "m", "p", "/", "tmpdir">>

\* ImportSyncAssets that copies nothing: the archive's images stay in the
\* scratch directory
ImportSyncAssets_NoCopy(src, order, store, times) == store

\* src/file_handler.py:283-299: the asset store after the sync from the
\* archive's assets directory
ImportSyncAssets(src, order, store, times) == SyncLoop(src, order, store, times, 1)

\* src/file_handler.py:301-302: [sheet, headers, current_file] after the
\* load of the entry excel_name found first; cur is the document before.  A
\* file that is no workbook makes the load fail, which
\* _load_from_excel_file reports itself and which changes no document.  An
\* archive written by export_package holds no directory sheet-data_assets,
\* so the load finds no asset directory next to the extracted workbook.
ImportLoad(zip, excel_name, cur) ==
    IF excel_name \in DOMAIN zip.books
    THEN LET doc == LoadData(zip.books[excel_name])
         IN  [sheet |-> doc.sheet, headers |-> doc.headers,
              current_file |-> PathJoin(TempDir, excel_name)]
    ELSE cur

\* the paths os.path.exists answers True for: the files of the asset store,
\* as cells name them, and the user's files
ExistingPaths(store) ==
    { PathJoin(AssetsDir, f) : f \in DOMAIN store } \cup DOMAIN SourceFiles

(***************************************************************************)
(* State.                                                                  *)
(***************************************************************************)
VARIABLES
    text,         \* codec: the text T given to encode, also the cell's value V
    images,       \* codec: the image list I given to encode, N given to merge
    value,        \* codec: what format_cell_with_images returned
    dtext,        \* codec: what clean_text_content returned
    dimages,      \* codec: what extract_image_paths returned
    count,        \* headers: the argument of generate_column_headers
    pc,           \* the last operation applied
    arg,          \* the path the last file operation was given
    sheet,        \* the grid: a sequence of rows, each a sequence of cells
    headers,      \* the grid's column headers
    current_file, \* FileHandler.current_file, <<>> for None
    assets,       \* the asset store: the files of the directory assets
    clock,        \* the second datetime.now() is in
    books,        \* the spreadsheet files on disk, by path
    dirs,         \* the asset directories next to spreadsheet files, by path
    zips,         \* the package archives on disk, by path
    wiki,         \* what get_wiki_content returned last
    nops,         \* the number of file operations done
    import_log,   \* history: <<source, stored path>> of every file imported
    saved_sheet,  \* history: by path, the grid the last save to it wrote
    exported,     \* history: by path, the grid and store the export read
    batch         \* history: the files of the last batch copy that was cut
                  \* short, and the index of the one whose copy failed

codecVars == <<text, images, value, dtext, dimages, count>>
docVars == <<sheet, headers, current_file>>
diskVars == <<assets, clock, books, dirs, zips>>
histVars == <<nops, import_log, saved_sheet, exported, batch>>
vars == <<codecVars, pc, arg, docVars, diskVars, wiki, histVars>>

\* no batch copy was cut short
NoBatch == [files |-> <<>>, failed |-> 0]

\* the state of what a specification does not use
CodecIdle ==
    /\ text = <<>>
    /\ images = <<>>
    /\ value = <<>>
    /\ dtext = <<>>
    /\ dimages = <<>>
    /\ count = 0

FilesIdle ==
    /\ arg = <<>>
    /\ current_file = <<>>
    /\ clock = 0
    /\ books = <<>>
    /\ dirs = <<>>
    /\ zips = <<>>
    /\ nops = 0
    /\ import_log = <<>>
    /\ saved_sheet = <<>>
    /\ exported = <<>>
    /\ batch = NoBatch

DiskIdle == FilesIdle /\ assets = EmptyDir

(***************************************************************************)
(* The inputs of the codec.                                                *)
(***************************************************************************)
\* "x\n[IMGS] a; b", the cell encode("x", ["a", "b"]) produces
ExampleCell == format_cell_with_images(<<"x">>, << <<"a">>, <<"b">> >>)

\* texts: plain, untrimmed, with newline runs, with a partial tag, a bare
\* tag, a bare tag before a partial tag, cells with images
TextPieces ==
    { <<"x">>, <<" ", "x">>, <<"\n", "\n", "y">>, <<"x", "\n", "\n", "y">>,
      <<" ", "[", "I", "M", "G">>, TagIMG, TagIMG \o <<"[", "I", "M", "G">>,
      TagIMG \o <<" ", "a">>, <<" ">> \o TagIMG \o <<" ", "a">>, ExampleCell }

RECURSIVE SeqsUpTo(_, _)
\* the sequences of at most n elements of S
SeqsUpTo(S, n) ==
    IF n = 0 THEN { <<>> }
    ELSE LET shorter == SeqsUpTo(S, n - 1)
         IN  shorter \cup { Append(q, x) : q \in shorter, x \in S }

Texts == { Concat(q) : q \in SeqsUpTo(TextPieces, MaxPieces) }

\* relative paths, an absolute path, an untrimmed path, a path with a ';',
\* a path with a bracket and the empty path
ImagePaths ==
    { <<"a">>, <<"b">>, <<"c">>, <<"/", "v">>, <<" ", "d">>,
      <<"p", ";", "q">>, <<"[">>, <<>> }

ImageLists == SeqsUpTo(ImagePaths, MaxImages)

\* the cell next to the one the codec works on
OtherCell == <<"k">>

(***************************************************************************)
(* Codec operations.                                                       *)
(***************************************************************************)
InitCodec ==
    /\ text \in Texts
    /\ images \in ImageLists
    /\ value = <<>>
    /\ dtext = <<>>
    /\ dimages = <<>>
    /\ pc = "input"
    /\ sheet = << <<text, OtherCell>> >>
    /\ headers = <<>>
    /\ count = 0
    /\ wiki = <<>>
    /\ DiskIdle

\* value = encode(T, I)
Encode ==
    /\ pc = "input"
    /\ value' = format_cell_with_images(text, images)
    /\ pc' = "encoded"
    /\ UNCHANGED <<text, images, dtext, dimages, count, arg, docVars, diskVars, wiki, histVars>>

\* (dtext, dimages) = decode(encode(T, I))
Decode ==
    /\ pc = "encoded"
    /\ dtext' = clean_text_content(value)
    /\ dimages' = extract_image_paths(value)
    /\ pc' = "decoded"
    /\ UNCHANGED <<text, images, value, count, arg, docVars, diskVars, wiki, histVars>>

\* (dtext, dimages) = decode(T)
DecodeRaw ==
    /\ pc = "input"
    /\ dtext' = clean_text_content(text)
    /\ dimages' = extract_image_paths(text)
    /\ pc' = "decodedraw"
    /\ UNCHANGED <<text, images, value, count, arg, docVars, diskVars, wiki, histVars>>

\* merge(V, N) on the cell of row 1, column 1, which holds V = text
Merge ==
    /\ pc = "input"
    /\ sheet' = add_images_to_cell_incremental(sheet, 1, 1, images)
    /\ pc' = "merged"
    /\ UNCHANGED <<codecVars, arg, headers, current_file, diskVars, wiki, histVars>>

NextCodec == Encode \/ Decode \/ DecodeRaw \/ Merge

SpecCodec == InitCodec /\ [][NextCodec]_vars

(***************************************************************************)
(* The merge on cells with and without images, given relative and absolute *)
(* paths.                                                                  *)
(***************************************************************************)
\* cell values: empty, a text, an untrimmed text, a partial tag, text and two
\* images, one image, two tags, a tag right after a tag, and tags that are
\* complete once the tag inside them is removed, without and with a path
MergeCells ==
    { <<>>, <<"x">>, <<" ", "x", "\n", "\n", "y", " ">>, <<"x", "[", "I", "M", "G">>,
      ExampleCell, TagIMG \o <<" ", "a">>,
      TagIMG \o <<" ", "a", "\n">> \o TagIMG \o <<" ", "b">>,
      <<"x">> \o TagIMGS \o TagIMG \o <<" ", "b">>,
      <<"[", "I", "M", "G">> \o TagIMG \o <<"]">>,
      <<"[", "I", "M", "G">> \o TagIMG \o <<"]", " ", "a">> }

\* new images: relative paths, the absolute path of a, which is "a" relative
\* to the working directory, an absolute path outside of it, and a path with
\* a bracket
MergePaths ==
    { <<"a">>, <<"b">>, <<"/", "w", "/", "a">>, <<"/", "v">>, <<"[">> }

InitMerge ==
    /\ text \in MergeCells
    /\ images \in SeqsUpTo(MergePaths, MaxImages)
    /\ value = <<>>
    /\ dtext = <<>>
    /\ dimages = <<>>
    /\ pc = "input"
    /\ sheet = << <<text, OtherCell>> >>
    /\ headers = <<>>
    /\ count = 0
    /\ wiki = <<>>
    /\ DiskIdle

\* (dtext, dimages) = decode(merge(V, N))
DecodeMerged ==
    /\ pc = "merged"
    /\ dtext' = clean_text_content(sheet[1][1])
    /\ dimages' = extract_image_paths(sheet[1][1])
    /\ pc' = "remerged"
    /\ UNCHANGED <<text, images, value, count, arg, docVars, diskVars, wiki, histVars>>

NextMerge == Merge \/ DecodeMerged \/ DecodeRaw

SpecMerge == InitMerge /\ [][NextMerge]_vars

(***************************************************************************)
(* Column headers.                                                         *)
(***************************************************************************)
\* a count past the last two-letter name (index 701, "ZZ")
BigCount == 705

InitHeaders ==
    /\ count \in (0..MaxCount) \cup {BigCount}
    /\ headers = <<>>
    /\ pc = "input"
    /\ text = <<>>
    /\ images = <<>>
    /\ value = <<>>
    /\ dtext = <<>>
    /\ dimages = <<>>
    /\ sheet = <<>>
    /\ wiki = <<>>
    /\ DiskIdle

GenerateHeaders ==
    /\ pc = "input"
    /\ headers' = generate_column_headers(count)
    /\ pc' = "headers"
    /\ UNCHANGED <<codecVars, arg, sheet, current_file, diskVars, wiki, histVars>>

NextHeaders == GenerateHeaders

SpecHeaders == InitHeaders /\ [][NextHeaders]_vars

(***************************************************************************)
(* The file operations: upload, save, open, package export and import.     *)
(***************************************************************************)
\* the grids of the file operations have GridRows rows and GridCols columns
GridRows == 2
GridCols == 3
\* at most MaxOps file operations are done
MaxOps == 2
\* datetime.now() is in the seconds 0 .. MaxClock
MaxClock == 1

\* "[IMG] assets/pic.png"
PicCell == TagIMG \o <<" ">> \o PathJoin(AssetsDir, PicPng)

\* what the first cell holds at the start: a text, a text pandas reads as a
\* missing value, an image
InitCells == { <<"x">>, <<"N", "A">>, PicCell }

\* the grid with v in its first cell and w in its last one
Grid(v, w) ==
    [r \in 1..GridRows |-> [c \in 1..GridCols |->
        IF r = 1 /\ c = 1 THEN v
        ELSE IF r = GridRows /\ c = GridCols THEN w
        ELSE <<>>]]

\* a grid with a text in two cells, one with a text pandas reads as a
\* missing value, and the one-cell document holding an image
InitGrids ==
    { Grid(v, OtherCell) : v \in InitCells \ {PicCell} } \cup { Grid(PicCell, <<>>) }

\* the asset store at the start: empty, or holding pic.png from an earlier
\* package import
InitStores == { EmptyDir, (PicPng :> 1) }

SavePath == <<"/", "d", "/", "t", ".", "x", "l", "s", "x">>
ZipPath == <<"/", "d", "/", "p", ".", "z", "i", "p">>

\* a package exported elsewhere from the one-cell document holding
\* "[IMG] assets/pic.png", with pic.png in the store
ForeignPackage ==
    export_package(generate_column_headers(GridCols), Grid(PicCell, <<>>),
                   (PicPng :> 3))

InitFiles ==
    /\ CodecIdle
    /\ pc = "input"
    /\ arg = <<>>
    /\ sheet \in InitGrids
    /\ headers = generate_column_headers(GridCols)
    /\ current_file = <<>>
    /\ assets \in InitStores
    /\ clock = 0
    /\ books = <<>>
    /\ dirs = <<>>
    /\ \/ /\ zips = <<>>
          /\ exported = <<>>
       \/ /\ zips = (ZipPath :> ForeignPackage)
          /\ exported = (ZipPath :> [sheet |-> Grid(PicCell, <<>>),
                                     assets |-> (PicPng :> 3)])
    /\ wiki = <<>>
    /\ nops = 0
    /\ import_log = <<>>
    /\ saved_sheet = <<>>
    /\ batch = NoBatch

\* a second passes
Tick ==
    /\ clock < MaxClock
    /\ clock' = clock + 1
    /\ UNCHANGED <<codecVars, pc, arg, docVars, assets, books, dirs, zips,
                   wiki, histVars>>

\* the lists of files the user can pick in the upload dialog
UploadChoices ==
    LET u == <<"/", "u", "/">> \o PicPng
        v == <<"/", "v", "/">> \o PicPng
    IN  { <<u>>, <<v>>, <<u, v>>, <<MissingSource, v>> }

\* the clock after an operation that called datetime.now() n times, the
\* first split of them before the tick
ClockAfter(n, split) == IF split < n THEN clock + 1 ELSE clock

\* <<source, stored path>> for the files of image_paths that exist, in order
ImportPairs(image_paths, relative_paths) ==
    LET found == SelectSeq(image_paths, LAMBDA q : q \in DOMAIN SourceFiles)
    IN  [k \in 1..Len(found) |-> <<found[k], relative_paths[k]>>]

\* SpreadsheetApp.upload_image (src/app.py:313-334) with the first cell
\* selected: the files picked are copied into the asset store and merged
\* into the cell
UploadImage(filenames, split) ==
    /\ nops < MaxOps
    /\ split \in 0..Len(filenames)
    /\ ClockAfter(Len(filenames), split) <= MaxClock
    /\ LET res == copy_images_to_assets(filenames, assets,
                      NowTimes(Len(filenames), clock, split))
       IN  /\ assets' = res.dir
           /\ sheet' = IF res.relative_paths # <<>>
                       THEN add_images_to_cell_incremental(sheet, 1, 1,
                                res.relative_paths)
                       ELSE sheet
           /\ import_log' = import_log \o ImportPairs(filenames, res.relative_paths)
    /\ clock' = ClockAfter(Len(filenames), split)
    /\ pc' = "uploaded"
    /\ arg' = <<>>
    /\ nops' = nops + 1
    /\ UNCHANGED <<codecVars, headers, current_file, books, dirs, zips, wiki,
                   saved_sheet, exported, batch>>

\* what a save to filename changes (src/file_handler.py:62-149)
SaveTo(filename) ==
    LET res == _save_to_excel_file(filename, headers, sheet, assets, books, dirs)
    IN  /\ books' = res.books
        /\ dirs' = res.dirs
        /\ saved_sheet' = (filename :> sheet) @@ saved_sheet
        /\ pc' = "saved"
        /\ arg' = filename
        /\ nops' = nops + 1
        /\ UNCHANGED <<codecVars, sheet, headers, assets, clock, zips, wiki,
                       import_log, exported, batch>>

\* FileHandler.save_as_excel_file (src/file_handler.py:50-60), the dialog
\* giving SavePath
SaveAsExcelFile ==
    /\ nops < MaxOps
    /\ SaveTo(SavePath)
    /\ current_file' = SavePath

\* FileHandler.save_excel_file (src/file_handler.py:43-48) with a file
\* bound; with none it is save_as_excel_file
SaveExcelFile ==
    /\ nops < MaxOps
    /\ current_file # <<>>
    /\ SaveTo(current_file)
    /\ UNCHANGED current_file

\* the files of the asset directory next to filename
SiblingFiles(filename) ==
    IF ExcelAssetsDir(filename) \in DOMAIN dirs
    THEN DOMAIN dirs[ExcelAssetsDir(filename)] ELSE {}

\* FileHandler.open_excel_file and _load_from_excel_file
\* (src/file_handler.py:151-243), the dialog giving a spreadsheet file
\* written before; os.listdir gives the files of its asset directory in some
\* order, and the clock ticks at most once during the copies
OpenExcelFile(filename) ==
    /\ nops < MaxOps
    /\ filename \in DOMAIN books
    /\ LET doc == LoadData(books[filename])
       IN  /\ sheet' = doc.sheet
           /\ headers' = doc.headers
    /\ current_file' = filename
    /\ \E order \in Orders(SiblingFiles(filename)) :
           \E split \in 0..Len(order) :
               /\ ClockAfter(Len(order), split) <= MaxClock
               /\ assets' = IF ExcelAssetsDir(filename) \in DOMAIN dirs
                            THEN LoadSyncAssets(dirs[ExcelAssetsDir(filename)],
                                     order, assets,
                                     NowTimes(Len(order), clock, split))
                            ELSE assets
               /\ clock' = ClockAfter(Len(order), split)
    /\ pc' = "loaded"
    /\ arg' = filename
    /\ nops' = nops + 1
    /\ UNCHANGED <<codecVars, books, dirs, zips, wiki, import_log,
                   saved_sheet, exported, batch>>

\* FileHandler.export_package (src/file_handler.py:310-353), the dialog
\* giving ZipPath
ExportPackage ==
    /\ nops < MaxOps
    /\ zips' = (ZipPath :> export_package(headers, sheet, assets)) @@ zips
    /\ exported' = (ZipPath :> [sheet |-> sheet, assets |-> assets]) @@ exported
    /\ pc' = "exported"
    /\ arg' = ZipPath
    /\ nops' = nops + 1
    /\ UNCHANGED <<codecVars, docVars, assets, clock, books, dirs, wiki,
                   import_log, saved_sheet, batch>>

\* FileHandler.import_package (src/file_handler.py:245-308), the dialog
\* giving an archive written before
ImportPackage(filename) ==
    /\ nops < MaxOps
    /\ filename \in DOMAIN zips
    /\ \E excel_name \in FirstExcelFiles(zips[filename]) :
           LET doc == ImportLoad(zips[filename], excel_name,
                          [sheet |-> sheet, headers |-> headers,
                           current_file |-> current_file])
           IN  /\ sheet' = doc.sheet
               /\ headers' = doc.headers
               /\ current_file' = doc.current_file
    /\ LET assets_src == ExtractedDir(zips[filename], AssetsDir)
       IN  \E order \in Orders(DOMAIN assets_src) :
               \E split \in 0..Len(order) :
                   /\ ClockAfter(Len(order), split) <= MaxClock
                   /\ assets' = IF assets_src # EmptyDir
                                THEN ImportSyncAssets(assets_src, order, assets,
                                         NowTimes(Len(order), clock, split))
                                ELSE assets
                   /\ clock' = ClockAfter(Len(order), split)
    /\ pc' = "imported"
    /\ arg' = filename
    /\ nops' = nops + 1
    /\ UNCHANGED <<codecVars, books, dirs, zips, wiki, import_log,
                   saved_sheet, exported, batch>>

NextFiles ==
    \/ Tick
    \/ \E filenames \in UploadChoices, split \in 0..2 :
           UploadImage(filenames, split)
    \/ SaveAsExcelFile
    \/ SaveExcelFile
    \/ \E filename \in DOMAIN books : OpenExcelFile(filename)
    \/ ExportPackage
    \/ \E filename \in DOMAIN zips : ImportPackage(filename)

SpecFiles == InitFiles /\ [][NextFiles]_vars

(***************************************************************************)
(* The file operations when a step of them fails.                          *)
(***************************************************************************)
\* an archive whose export stopped before the workbook was added: it holds
\* assets/pic.png and nothing else
AssetsOnlyPackage ==
    [images |-> ForeignPackage.images, books |-> <<>>, texts |-> <<>>]

\* a path the open dialog can give that names no workbook
\* a package whose spreadsheet entry is no workbook pandas can read, with the
\* assets of ForeignPackage
CorruptPackage ==
    [images |-> ForeignPackage.images, books |-> <<>>,
     texts |-> (BookEntry :> <<"junk">>)]

NotABook == <<"/", "d", "/", "n", ".", "t", "x", "t">>

\* the grid the failing operations start from: the one-cell document
\* holding an image
FaultGrids == { Grid(PicCell, <<>>) }

InitFaults ==
    /\ CodecIdle
    /\ pc = "input"
    /\ arg = <<>>
    /\ sheet \in FaultGrids
    /\ headers = generate_column_headers(GridCols)
    /\ current_file = <<>>
    /\ assets \in InitStores
    /\ clock = 0
    /\ books = <<>>
    /\ dirs = <<>>
    /\ \/ /\ zips = <<>>
          /\ exported = <<>>
       \/ /\ zips = (ZipPath :> ForeignPackage)
          /\ exported = (ZipPath :> [sheet |-> Grid(PicCell, <<>>),
                                     assets |-> (PicPng :> 3)])
       \/ /\ zips = (ZipPath :> AssetsOnlyPackage)
          /\ exported = <<>>
       \/ /\ zips = (ZipPath :> CorruptPackage)
          /\ exported = <<>>
    /\ wiki = <<>>
    /\ nops = 0
    /\ import_log = <<>>
    /\ saved_sheet = <<>>
    /\ batch = NoBatch

\* the files of dir whose names are in names
Restrict(dir, names) == [n \in names |-> dir[n]]

\* where _save_to_excel_file can stop: the xlsxwriter check of
\* src/file_handler.py:70-72, os.makedirs, a shutil.copy2 of the copy loop,
\* the writing of the workbook
SaveFaultPoints == {"dependency", "makedirs", "copy", "workbook"}

\* what a save to filename that stops at point changes on disk: nothing
\* before the copy loop, the files copied so far (those named in done)
\* within it, every file of the store after it; the workbook is not written
SaveFailsTo(filename, point, done) ==
    LET excel_assets_dir == ExcelAssetsDir(filename)
        before == IF excel_assets_dir \in DOMAIN dirs
                  THEN dirs[excel_assets_dir] ELSE EmptyDir
        copied == IF point = "copy" THEN CopyAllInto(Restrict(assets, done), before)
                  ELSE CopyAllInto(assets, before)
    IN  /\ dirs' = IF point \in {"copy", "workbook"}
                   THEN (excel_assets_dir :> copied) @@ dirs ELSE dirs
        /\ pc' = "save_failed"
        /\ arg' = filename
        /\ nops' = nops + 1
        /\ batch' = NoBatch
        /\ UNCHANGED <<codecVars, sheet, headers, assets, clock, books, zips,
                       wiki, import_log, saved_sheet, exported>>

\* FileHandler.save_as_excel_file (src/file_handler.py:50-60) when the save
\* fails: _save_to_excel_file reports the failure and returns, and line 60
\* binds the file all the same
SaveAsFails ==
    /\ nops < MaxOps
    /\ \E point \in SaveFaultPoints :
           \E done \in SUBSET DOMAIN assets :
               /\ point = "copy" => done # DOMAIN assets
               /\ point # "copy" => done = {}
               /\ SaveFailsTo(SavePath, point, done)
    /\ current_file' = SavePath

\* FileHandler.save_excel_file (src/file_handler.py:43-48) with a file
\* bound, when the save fails
SaveFails ==
    /\ nops < MaxOps
    /\ current_file # <<>>
    /\ \E point \in SaveFaultPoints :
           \E done \in SUBSET DOMAIN assets :
               /\ point = "copy" => done # DOMAIN assets
               /\ point # "copy" => done = {}
               /\ SaveFailsTo(current_file, point, done)
    /\ UNCHANGED current_file

\* FileHandler.open_excel_file when _load_from_excel_file stops before the
\* asset copy loop: the pandas / openpyxl check of src/file_handler.py:169-171
\* or pd.read_excel raising on a file that is no workbook
OpenFailsRead(filename) ==
    /\ nops < MaxOps
    /\ pc' = "load_failed"
    /\ arg' = filename
    /\ nops' = nops + 1
    /\ batch' = NoBatch
    /\ UNCHANGED <<codecVars, docVars, diskVars, wiki, import_log,
                   saved_sheet, exported>>

\* FileHandler.open_excel_file when the shutil.copy2 of the file order[k]
\* raises (src/file_handler.py:225): the files before it were copied, the
\* exception ends the loop and the load, and the handler of line 242 reports
\* it
OpenFailsCopy(filename) ==
    /\ nops < MaxOps
    /\ filename \in DOMAIN books
    /\ ExcelAssetsDir(filename) \in DOMAIN dirs
    /\ \E order \in Orders(SiblingFiles(filename)) :
           \E k \in 1..Len(order) :
               /\ assets' = LoadSyncAssets(dirs[ExcelAssetsDir(filename)],
                                SubSeq(order, 1, k - 1), assets,
                                NowTimes(k - 1, clock, k - 1))
               /\ batch' = [files |-> order, failed |-> k]
    /\ pc' = "load_failed"
    /\ arg' = filename
    /\ nops' = nops + 1
    /\ UNCHANGED <<codecVars, docVars, clock, books, dirs, zips, wiki,
                   import_log, saved_sheet, exported>>

\* ImportAssets without the return of src/file_handler.py:271: the assets
\* directory of the archive is synced although no workbook was found
ImportAssets_NoReturn(zip, order, store, times) ==
    ImportSyncAssets(ExtractedDir(zip, AssetsDir), order, store, times)

\* src/file_handler.py:262-299: the asset store after import_package has
\* looked for a workbook and synced the archive's assets directory; with no
\* workbook in the archive it returns at line 271, before the sync
ImportAssets(zip, order, store, times) ==
    IF FirstExcelFiles(zip) = {} THEN store
    ELSE ImportSyncAssets(ExtractedDir(zip, AssetsDir), order, store, times)

\* FileHandler.import_package on an archive without a workbook
\* (src/file_handler.py:269-271)
ImportNoExcel(filename) ==
    /\ nops < MaxOps
    /\ filename \in DOMAIN zips
    /\ FirstExcelFiles(zips[filename]) = {}
    /\ \E order \in Orders(DOMAIN ExtractedDir(zips[filename], AssetsDir)) :
           assets' = ImportAssets(zips[filename], order, assets,
                         NowTimes(Len(order), clock, Len(order)))
    /\ pc' = "import_failed"
    /\ arg' = filename
    /\ nops' = nops + 1
    /\ batch' = NoBatch
    /\ UNCHANGED <<codecVars, docVars, clock, books, dirs, zips, wiki,
                   import_log, saved_sheet, exported>>

\* FileHandler.import_package when the shutil.copy2 of the file order[k]
\* raises (src/file_handler.py:299): the files before it were copied, the
\* workbook is not loaded
ImportFailsCopy(filename) ==
    /\ nops < MaxOps
    /\ filename \in DOMAIN zips
    /\ FirstExcelFiles(zips[filename]) # {}
    /\ LET assets_src == ExtractedDir(zips[filename], AssetsDir)
       IN  \E order \in Orders(DOMAIN assets_src) :
               \E k \in 1..Len(order) :
                   /\ assets' = ImportSyncAssets(assets_src,
                                    SubSeq(order, 1, k - 1), assets,
                                    NowTimes(k - 1, clock, k - 1))
                   /\ batch' = [files |-> order, failed |-> k]
    /\ pc' = "import_failed"
    /\ arg' = filename
    /\ nops' = nops + 1
    /\ UNCHANGED <<codecVars, docVars, clock, books, dirs, zips, wiki,
                   import_log, saved_sheet, exported>>

\* where export_package can stop after the archive was opened for writing:
\* in _save_excel_sync (the archive holds the images) or in
\* _export_wiki_sync (it holds the images and the workbook)
ExportFaultPoints == {"workbook", "wiki"}

\* FileHandler.export_package (src/file_handler.py:326-353) when a step
\* raises: the archive is left with the entries written so far
ExportFails ==
    /\ nops < MaxOps
    /\ \E point \in ExportFaultPoints :
           LET whole == export_package(headers, sheet, assets)
           IN  zips' = (ZipPath :>
                          [images |-> whole.images,
                           books |-> IF point = "wiki" THEN whole.books ELSE <<>>,
                           texts |-> <<>>]) @@ zips
    /\ pc' = "export_failed"
    /\ arg' = ZipPath
    /\ nops' = nops + 1
    /\ batch' = NoBatch
    /\ UNCHANGED <<codecVars, docVars, assets, clock, books, dirs, wiki,
                   import_log, saved_sheet, exported>>

\* SpreadsheetApp.upload_image (src/app.py:312-334) when the shutil.copy of
\* filenames[k] raises (src/utils.py:149): copy_images_to_assets has copied
\* the files before it, the exception leaves it and upload_image, and the
\* cell is not touched
UploadFails(filenames) ==
    /\ nops < MaxOps
    /\ \E k \in 1..Len(filenames) :
           /\ filenames[k] \in DOMAIN SourceFiles
           /\ LET res == copy_images_to_assets(SubSeq(filenames, 1, k - 1),
                             assets, NowTimes(k - 1, clock, k - 1))
              IN  /\ assets' = res.dir
                  /\ import_log' = import_log \o
                         ImportPairs(SubSeq(filenames, 1, k - 1),
                                     res.relative_paths)
           /\ batch' = [files |-> filenames, failed |-> k]
    /\ pc' = "upload_failed"
    /\ arg' = <<>>
    /\ nops' = nops + 1
    /\ UNCHANGED <<codecVars, docVars, clock, books, dirs, zips, wiki,
                   saved_sheet, exported>>

\* WikiExporter.export_to_wiki and copy_wiki_to_clipboard
\* (src/wiki_exporter.py:14-30, 84-94) on the document
RenderDoc ==
    /\ nops < MaxOps
    /\ wiki' = get_wiki_content(headers, sheet, ExistingPaths(assets))
    /\ pc' = "rendered"
    /\ arg' = <<>>
    /\ nops' = nops + 1
    /\ UNCHANGED <<codecVars, docVars, diskVars, import_log, saved_sheet,
                   exported, batch>>

\* the image lists merged into the first cell without a copy: a path of the
\* asset store and a user's file
MergeChoices == { <<PathJoin(AssetsDir, PicPng)>>, <<MissingSource>> }

\* Utils.add_images_to_cell_incremental (src/utils.py:155-187) on the first
\* cell of the document
MergeCell(new_image_paths) ==
    /\ nops < MaxOps
    /\ sheet' = add_images_to_cell_incremental(sheet, 1, 1, new_image_paths)
    /\ pc' = "merged"
    /\ arg' = <<>>
    /\ nops' = nops + 1
    /\ UNCHANGED <<codecVars, headers, current_file, diskVars, wiki,
                   import_log, saved_sheet, exported, batch>>

\* decode of the first cell of the document and encode of what it gave
\* (src/utils.py:43-125)
CodecCell ==
    /\ nops < MaxOps
    /\ dtext' = clean_text_content(sheet[1][1])
    /\ dimages' = extract_image_paths(sheet[1][1])
    /\ value' = format_cell_with_images(clean_text_content(sheet[1][1]),
                     extract_image_paths(sheet[1][1]))
    /\ pc' = "decoded"
    /\ arg' = <<>>
    /\ nops' = nops + 1
    /\ UNCHANGED <<text, images, count, docVars, diskVars, wiki, import_log,
                   saved_sheet, exported, batch>>

\* the operations of NextFiles, each succeeding or failing, one right after
\* the other: the clock moves during an operation only
NextFaults ==
    \/ \E filenames \in UploadChoices, split \in 0..2 :
           UploadImage(filenames, split)
    \/ SaveAsExcelFile
    \/ SaveExcelFile
    \/ \E filename \in DOMAIN books : OpenExcelFile(filename)
    \/ ExportPackage
    \/ \E filename \in DOMAIN zips : ImportPackage(filename)
    \/ RenderDoc
    \/ \E new_image_paths \in MergeChoices : MergeCell(new_image_paths)
    \/ CodecCell
    \/ SaveAsFails
    \/ SaveFails
    \/ \E filename \in DOMAIN books \cup {NotABook} : OpenFailsRead(filename)
    \/ \E filename \in DOMAIN books : OpenFailsCopy(filename)
    \/ \E filename \in DOMAIN zips : ImportNoExcel(filename)
    \/ \E filename \in DOMAIN zips : ImportFailsCopy(filename)
    \/ ExportFails
    \/ \E filenames \in UploadChoices : UploadFails(filenames)

SpecFaults == InitFaults /\ [][NextFaults]_vars

(***************************************************************************)
(* Loading workbooks smaller and larger than the floor of the grid.        *)
(***************************************************************************)
\* the numbers of data rows and of columns of the workbooks to load: none,
\* few, and around the floor
LoadRows == { 0, 1, 2, MinRows - 1, MinRows, MinRows + 1, MinRows + 2 }
LoadCols == { 1, 2, MinCols - 1, MinCols, MinCols + 1, MinCols + 2 }

\* a workbook of another program with a header row, r data rows and c
\* columns: the cell of row i, column j holds the digits of i and j, and
\* every third cell above the last row was never written
ShapedBook(r, c) ==
    [cells |-> [rc \in { <<i, j>> \in (0..r) \X (1..c) :
                            i = 0 \/ i = r \/ (i + j) % 3 # 0 } |->
                   <<"v", Digits[(rc[1] % 10) + 1], Digits[(rc[2] % 10) + 1]>>],
     images |-> {}]

InitLoad ==
    /\ CodecIdle
    /\ pc = "input"
    /\ arg = <<>>
    /\ sheet = Grid(PicCell, <<>>)
    /\ headers = generate_column_headers(GridCols)
    /\ current_file = <<>>
    /\ assets \in InitStores
    /\ clock = 0
    /\ \E r \in LoadRows, c \in LoadCols : books = (SavePath :> ShapedBook(r, c))
    /\ dirs \in { <<>>, (ExcelAssetsDir(SavePath) :> (PicPng :> 3)) }
    /\ zips = <<>>
    /\ exported = <<>>
    /\ wiki = <<>>
    /\ nops = 0
    /\ import_log = <<>>
    /\ saved_sheet = <<>>
    /\ batch = NoBatch

NextLoad == \E filename \in DOMAIN books : OpenExcelFile(filename)

SpecLoad == InitLoad /\ [][NextLoad]_vars

(***************************************************************************)
(* Saving next to an asset directory that exists already.                  *)
(***************************************************************************)
OldPng == <<"o", "l", "d", ".", "p", "n", "g">>

\* the directory t_assets of an earlier save: another pic.png, and a file
\* the store does not have
OldSiblingDir == (PicPng :> 3) @@ (OldPng :> 4)

InitSave ==
    /\ CodecIdle
    /\ pc = "input"
    /\ arg = <<>>
    /\ sheet = Grid(PicCell, <<>>)
    /\ headers = generate_column_headers(GridCols)
    /\ current_file = <<>>
    /\ assets \in InitStores
    /\ clock = 0
    /\ books = <<>>
    /\ dirs \in { <<>>, (ExcelAssetsDir(SavePath) :> OldSiblingDir) }
    /\ zips = <<>>
    /\ exported = <<>>
    /\ wiki = <<>>
    /\ nops = 0
    /\ import_log = <<>>
    /\ saved_sheet = <<>>
    /\ batch = NoBatch

NextSave ==
    \/ Tick
    \/ \E filenames \in UploadChoices, split \in 0..2 :
           UploadImage(filenames, split)
    \/ SaveAsExcelFile
    \/ SaveExcelFile
    \/ \E filename \in DOMAIN books : OpenExcelFile(filename)

SpecSave == InitSave /\ [][NextSave]_vars

(***************************************************************************)
(* Rendering the grid to wiki markup.                                      *)
(***************************************************************************)
\* the first row of the rendered grids has WikiCols cells
WikiCols == 2

ImgA == PathJoin(AssetsDir, <<"a">>)
ImgB == PathJoin(AssetsDir, <<"b">>)

\* an empty cell, a text, two images, one image, a text and an image, a
\* text with a bar
WikiCells ==
    { <<>>, <<"x">>, format_cell_with_images(<<>>, <<ImgA, ImgB>>),
      format_cell_with_images(<<>>, <<ImgB>>),
      format_cell_with_images(<<"x", "\n", "y">>, <<ImgA>>),
      <<"x", "|", "y">> }

\* the row below: empty, or naming the image a once more
WikiSecondRows ==
    { [c \in 1..WikiCols |-> <<>>],
      [c \in 1..WikiCols |-> IF c = 1 THEN format_cell_with_images(<<>>, <<ImgA>>)
                             ELSE <<>>] }

InitWiki ==
    /\ CodecIdle
    /\ FilesIdle
    /\ pc = "input"
    /\ \E row1 \in [1..WikiCols -> WikiCells], row2 \in WikiSecondRows,
          files \in { {}, { <<"a">> }, { <<"a">>, <<"b">> } } :
           /\ sheet = <<row1, row2>>
           /\ assets = [f \in files |-> 1]
    /\ headers = generate_column_headers(WikiCols)
    /\ wiki = <<>>

\* WikiExporter.copy_wiki_to_clipboard and export_to_wiki
\* (src/wiki_exporter.py:14-30, 84-94): the text get_wiki_content returns
RenderWiki ==
    /\ pc = "input"
    /\ wiki' = get_wiki_content(headers, sheet, ExistingPaths(assets))
    /\ pc' = "rendered"
    /\ UNCHANGED <<codecVars, arg, docVars, diskVars, histVars>>

NextWiki == RenderWiki

SpecWiki == InitWiki /\ [][NextWiki]_vars

(***************************************************************************)
(* Properties of the codec.                                                *)
(***************************************************************************)
\* some position of s starts p
Contains(s, p) == \E i \in 1..Len(s) : StartsWithAt(s, i, p)

\* the text holds image-tag syntax
HasTag(s) == Contains(s, TagIMG) \/ Contains(s, TagIMGS)

\* a relative, trimmed, non-empty path without ';', '[' or ']'
PlainPath(path) ==
    /\ path # <<>>
    /\ ~IsAbs(path)
    /\ Strip(path) = path
    /\ \A k \in 1..Len(path) : path[k] \notin {";", "[", "]"}

NoSemicolon(list) ==
    \A k \in 1..Len(list) : ~Contains(list[k], <<";">>)

\* C1 as stated: for every text T and every non-empty list I of paths
\* without ';', decode(encode(T, I)) = (trim(T), I).
C1_RoundTripAsStated ==
    (pc = "decoded" /\ images # <<>> /\ NoSemicolon(images))
        => (dtext = Strip(text) /\ dimages = images)

\* C1 amended: for every text T without image-tag syntax whose trimmed form
\* has no two consecutive newlines, and every non-empty list I of relative,
\* trimmed, non-empty paths without ';', '[' or ']',
\* decode(encode(T, I)) = (trim(T), I).
C1_RoundTrip ==
    (/\ pc = "decoded"
     /\ images # <<>>
     /\ \A k \in 1..Len(images) : PlainPath(images[k])
     /\ ~HasTag(text)
     /\ ~Contains(Strip(text), <<"\n", "\n">>))
        => (dtext = Strip(text) /\ dimages = images)

\* C1 witness: an untrimmed text and two plain paths went through encode and
\* decode
C1_Witness ==
    /\ pc = "decoded"
    /\ Len(images) = 2
    /\ \A k \in 1..Len(images) : PlainPath(images[k])
    /\ ~HasTag(text)
    /\ ~Contains(Strip(text), <<"\n", "\n">>)
    /\ Strip(text) # text
    /\ Strip(text) # <<>>

\* C2 as stated: for every text T without image-tag syntax, decode(T) is
\* (T, []) character for character, and encode(T, []) = T.
C2_PlainTextAsStated ==
    /\ (pc = "decodedraw" /\ ~HasTag(text))
           => (dtext = text /\ dimages = <<>>)
    /\ (pc = "encoded" /\ images = <<>> /\ ~HasTag(text)) => value = text

\* C2 amended: for every text T without image-tag syntax, decode(T) is
\* (T with every run of newlines collapsed to one newline and then trimmed,
\* []), and encode(T, []) = T.
C2_PlainText ==
    /\ (pc = "decodedraw" /\ ~HasTag(text))
           => (dtext = Strip(CollapseNewlines(text)) /\ dimages = <<>>)
    /\ (pc = "encoded" /\ images = <<>> /\ ~HasTag(text)) => value = text

\* C2 witness: a text without tag syntax that holds a partial tag was decoded
C2_Witness ==
    /\ pc = "decodedraw"
    /\ ~HasTag(text)
    /\ Contains(text, <<"[", "I", "M", "G">>)
    /\ Strip(text) # text

\* the elements of list whose value did not occur earlier in list
KeepFirst(list) ==
    LET firsts == { k \in 1..Len(list) : \A j \in 1..(k - 1) : list[j] # list[k] }
        RECURSIVE Pick(_)
        Pick(k) ==
            IF k > Len(list) THEN <<>>
            ELSE (IF k \in firsts THEN <<list[k]>> ELSE <<>>) \o Pick(k + 1)
    IN  Pick(1)

\* C3: for a cell V with decode(V) = (text, E) and a non-empty list N,
\* merge(V, N) sets the cell to encode(text, D), D being E ++ N without the
\* later occurrences of a string; merge(encode("x", ["a","b"]), ["b","c"]) is
\* encode("x", ["a","b","c"]), that is "x\n[IMGS] a; b; c".
C3_Merge ==
    (pc = "merged" /\ images # <<>>)
        => /\ sheet[1][1] =
                  format_cell_with_images(
                      clean_text_content(text),
                      KeepFirst(extract_image_paths(text) \o images))
           /\ sheet[1][2] = OtherCell
           /\ (text = ExampleCell /\ images = << <<"b">>, <<"c">> >>)
                  => sheet[1][1] =
                         <<"x", "\n", "[", "I", "M", "G", "S", "]", " ",
                           "a", ";", " ", "b", ";", " ", "c">>

\* C3 witness: the merge of the example, whose new list repeats an image of
\* the cell
C3_Witness ==
    /\ pc = "merged"
    /\ images = << <<"b">>, <<"c">> >>
    /\ text = ExampleCell

\* C4: merge(V, []) leaves the cell's string and every other cell as they
\* were, whatever V holds.
C4_MergeNothing ==
    (pc = "merged" /\ images = <<>>) => sheet = << <<text, OtherCell>> >>

\* C4 witness: a merge of no image into a cell holding a tag and untrimmed
\* text
C4_Witness ==
    /\ pc = "merged"
    /\ images = <<>>
    /\ HasTag(text)
    /\ Strip(text) # text

(***************************************************************************)
(* Properties of the column headers.                                       *)
(***************************************************************************)
\* the position of a letter in the alphabet, 1..26; 0 for anything else
LetterIndex(ch) ==
    IF \E k \in 1..26 : Letters[k] = ch
    THEN CHOOSE k \in 1..26 : Letters[k] = ch
    ELSE 0

RECURSIVE Bijective26(_, _)
\* the number a bijective base-26 numeral denotes, acc being the value of the
\* digits read so far
Bijective26(name, acc) ==
    IF name = <<>> THEN acc
    ELSE Bijective26(Tail(name), acc * 26 + LetterIndex(Head(name)))

\* C10: generate_column_headers(n) has n elements, the one at index i is
\* the bijective base-26 name of i ("A".."Z" for 0..25, "AA" for 26, "AB"
\* for 27), and the names are pairwise distinct.
C10_Headers ==
    pc = "headers" =>
        /\ Len(headers) = count
        /\ \A i \in 1..count :
              /\ headers[i] # <<>>
              /\ \A k \in 1..Len(headers[i]) : LetterIndex(headers[i][k]) # 0
              /\ Bijective26(headers[i], 0) = i
              /\ i <= 26 => headers[i] = <<Letters[i]>>
        /\ count >= 27 => headers[27] = <<"A", "A">>
        /\ count >= 28 => headers[28] = <<"A", "B">>
        /\ \A i, j \in 1..count : headers[i] = headers[j] => i = j

\* C10 witness: headers up to a three-letter name were generated
C10_Witness ==
    /\ pc = "headers"
    /\ count > 702
    /\ Len(headers[703]) = 3

(***************************************************************************)
(* Properties of the asset store and of the files.                         *)
(***************************************************************************)
\* every file of the store was put there by an upload
OnlyImported ==
    DOMAIN assets \subseteq { Basename(import_log[k][2]) : k \in 1..Len(import_log) }

\* C5: two different source files with one basename, imported one after the
\* other into an empty store (in one call or in two, at any times), end as
\* two different stored files, each holding the bytes of its source.
C5_ImportsKeepBoth ==
    \A i, j \in 1..Len(import_log) :
        (/\ i < j
         /\ OnlyImported
         /\ import_log[i][1] # import_log[j][1]
         /\ Basename(import_log[i][1]) = Basename(import_log[j][1]))
            => /\ import_log[i][2] # import_log[j][2]
               /\ Basename(import_log[i][2]) \in DOMAIN assets
               /\ Basename(import_log[j][2]) \in DOMAIN assets
               /\ assets[Basename(import_log[i][2])] = SourceFiles[import_log[i][1]]
               /\ assets[Basename(import_log[j][2])] = SourceFiles[import_log[j][1]]

\* C6: no step replaces the bytes of a file the asset store already holds,
\* or removes it.
C6_NeverOverwrites ==
    [][\A f \in DOMAIN assets : f \in DOMAIN assets' /\ assets'[f] = assets[f]]_vars

\* decode(V)
Decoded(cell_value) ==
    <<clean_text_content(cell_value), extract_image_paths(cell_value)>>

\* C7: after a save of a grid of at most 100 rows and 20 columns to a path
\* and a load of that path, the grid has exactly 100 rows of 20 cells, every
\* cell of the saved grid decodes as it did, at its position, and every
\* other cell is the empty string.
C7_SaveLoadRoundTrip ==
    (/\ pc = "loaded"
     /\ arg \in DOMAIN saved_sheet
     /\ Len(saved_sheet[arg]) <= 100
     /\ \A r \in 1..Len(saved_sheet[arg]) : Len(saved_sheet[arg][r]) <= 20)
        => /\ Len(sheet) = 100
           /\ \A r \in 1..Len(sheet) :
                 /\ Len(sheet[r]) = 20
                 /\ \A c \in 1..Len(sheet[r]) :
                       IF r <= Len(saved_sheet[arg]) /\ c <= Len(saved_sheet[arg][r])
                       THEN Decoded(sheet[r][c]) = Decoded(saved_sheet[arg][r][c])
                       ELSE sheet[r][c] = <<>>

\* C8: after the export of the one-cell document holding
\* "[IMG] assets/pic.png", pic.png being in the store, and the import of the
\* archive written, the cell decodes to the same text and to one image path
\* whose basename is pic.png, and that path names a file of the asset store.
C8_ExportImport ==
    (/\ pc = "imported"
     /\ arg \in DOMAIN exported
     /\ exported[arg].sheet = Grid(PicCell, <<>>)
     /\ PicPng \in DOMAIN exported[arg].assets)
        => LET imgs == extract_image_paths(sheet[1][1])
           IN  /\ clean_text_content(sheet[1][1]) = clean_text_content(PicCell)
               /\ Len(imgs) = 1
               /\ Basename(imgs[1]) = PicPng
               /\ Dirname(imgs[1]) = AssetsDir
               /\ Basename(imgs[1]) \in DOMAIN assets
               /\ \A r \in 1..Len(sheet) : \A c \in 1..Len(sheet[r]) :
                      (r # 1 \/ c # 1) => sheet[r][c] = <<>>

\* C8 witness: the archive of the one-cell document was imported into a store
\* that held no pic.png at the start
C8_Witness ==
    /\ pc = "imported"
    /\ arg \in DOMAIN exported
    /\ exported[arg].sheet = Grid(PicCell, <<>>)
    /\ PicPng \in DOMAIN exported[arg].assets
    /\ assets = (PicPng :> 3)

(***************************************************************************)
(* Properties of the wiki markup.                                          *)
(***************************************************************************)
\* n times "|"
Bars(n) == [k \in 1..n |-> "|"]

\* "!basename!"
Marker(path) == <<"!">> \o Basename(path) \o <<"!">>

\* the position in wiki of the data row of grid row r, which has content
WikiLineOf(r) == 2 + Cardinality({ q \in 1..r : RowHasContent(sheet[q]) })

\* how often line occurs in the rendered text
Occurrences(line) == Cardinality({ k \in 1..Len(wiki) : wiki[k] = line })

\* the only content of grid row r is the cell of column c, which holds no
\* text and two images, both existing
TwoImageRow(r, c) ==
    /\ \A d \in 1..Len(sheet[r]) : d # c => sheet[r][d] = <<>>
    /\ clean_text_content(sheet[r][c]) = <<>>
    /\ Len(extract_image_paths(sheet[r][c])) = 2
    /\ \A k \in 1..2 : extract_image_paths(sheet[r][c])[k] \in ExistingPaths(assets)

SuccessOutcomes == {"saved", "loaded", "imported"}

\* the outcomes of a whole-document operation that failed
FailureOutcomes == {"save_failed", "load_failed", "import_failed", "export_failed"}

\* C11: current_file changes only in a step that completes a save or a load;
\* a save-as that fails leaves it as it was, so that every later save writes
\* to the path of the last successful save-as or load.
C11_BoundOnlyOnSuccess ==
    [][current_file' # current_file => pc' \in SuccessOutcomes]_vars

\* C12: a load, save, package import or package export that fails leaves
\* the grid, the headers and current_file as they were before the call.
C12_AllOrNothing ==
    [][(nops' = nops + 1 /\ pc' \in FailureOutcomes)
           => (sheet' = sheet /\ headers' = headers
                   /\ current_file' = current_file)]_vars

\* the bytes of every file of the store
StoredBytes == { assets[f] : f \in DOMAIN assets }

\* the directory a cut-short sync was copying from
SyncSource ==
    IF pc = "load_failed" THEN dirs[ExcelAssetsDir(arg)]
    ELSE ExtractedDir(zips[arg], AssetsDir)

\* C13: when the copy of one file of a batch fails, every other file of the
\* batch that can be copied is in the store afterwards, and an upload has
\* put the stored paths of those files into the cell.
C13_BatchContinues ==
    /\ (pc = "upload_failed" /\ batch.failed > 0) =>
           \A j \in 1..Len(batch.files) :
               (j # batch.failed /\ batch.files[j] \in DOMAIN SourceFiles) =>
                   \E f \in DOMAIN assets :
                       /\ assets[f] = SourceFiles[batch.files[j]]
                       /\ InSeq(PathJoin(AssetsDir, f),
                                extract_image_paths(sheet[1][1]))
    /\ (pc \in {"load_failed", "import_failed"} /\ batch.failed > 0) =>
           \A j \in 1..Len(batch.files) :
               j # batch.failed => SyncSource[batch.files[j]] \in StoredBytes

\* C14: the wiki entry of the archive export_package wrote is what
\* get_wiki_content returns for the same grid and store.
C14_PackageWikiIsRender ==
    (pc = "exported" /\ arg \in DOMAIN zips) =>
        zips[arg].texts[WikiEntry] =
            get_wiki_content(headers, sheet, ExistingPaths(assets))

\* C15: the import of an archive that holds no .xlsx / .xls file ends as a
\* failure and leaves the asset store, the grid, the headers and
\* current_file as they were, also when the archive holds an assets
\* directory.
C15_NoWorkbookNoChange ==
    [][(/\ nops' = nops + 1
        /\ pc' \in {"imported", "import_failed"}
        /\ arg' \in DOMAIN zips
        /\ FirstExcelFiles(zips[arg']) = {})
           => (/\ pc' = "import_failed"
               /\ assets' = assets
               /\ sheet' = sheet
               /\ headers' = headers
               /\ current_file' = current_file)]_vars

\* C15 witness: an archive holding assets/pic.png and no workbook was
\* imported while the store held no file
C15_Witness ==
    /\ pc = "import_failed"
    /\ arg \in DOMAIN zips
    /\ FirstExcelFiles(zips[arg]) = {}
    /\ DOMAIN ExtractedDir(zips[arg], AssetsDir) # {}
    /\ assets = EmptyDir

\* the outcomes of encode, decode, merge and render
PureOutcomes == {"decoded", "merged", "rendered"}

\* C19: a file name of the asset store stays in it at every step, and a step
\* of encode, decode, merge or render leaves the set of names as it is.
C19_StoreOnlyGrows ==
    [][/\ DOMAIN assets \subseteq DOMAIN assets'
       /\ (nops' = nops + 1 /\ pc' \in PureOutcomes)
              => DOMAIN assets' = DOMAIN assets]_vars

\* C19 witness: files were imported into a store that held one, and the
\* document was rendered afterwards
C19_Witness ==
    /\ pc = "rendered"
    /\ import_log # <<>>
    /\ Cardinality(DOMAIN assets) > 1

(***************************************************************************)
(* Properties of malformed tags and of the merge.                          *)
(***************************************************************************)
\* the position of the first [IMG] or [IMGS] of s, 0 if it has none
FirstTag(s) ==
    IF HasTag(s)
    THEN CHOOSE i \in 1..Len(s) :
             /\ StartsWithAt(s, i, TagIMG) \/ StartsWithAt(s, i, TagIMGS)
             /\ \A j \in 1..(i - 1) :
                    ~(StartsWithAt(s, j, TagIMG) \/ StartsWithAt(s, j, TagIMGS))
    ELSE 0

\* the length of the tag at the first tag position of s
FirstTagLen(s) ==
    IF StartsWithAt(s, FirstTag(s), TagIMG) THEN Len(TagIMG) ELSE Len(TagIMGS)

\* s before its first tag
BeforeTag(s) == SubSeq(s, 1, FirstTag(s) - 1)

\* s after its first tag
AfterTag(s) == SubSeq(s, FirstTag(s) + FirstTagLen(s), Len(s))

\* s holds one tag, and the tag has nothing after it or a '[' right after it
BareTag(s) ==
    /\ HasTag(s)
    /\ ~HasTag(AfterTag(s))
    /\ AfterTag(s) = <<>> \/ AfterTag(s)[1] = "["

\* C16 as stated: a tag of the value that contributes no path to the decoded
\* image list still appears in the decoded text.
C16_TagLeftAsText ==
    (pc = "decodedraw" /\ HasTag(text) /\ dimages = <<>>) => HasTag(dtext)

\* C16 amended: a partial tag, one without its closing bracket, stays in the
\* decoded text; a complete [IMG] or [IMGS] that has nothing or a '[' right
\* after it contributes no path and is removed from the decoded text, which
\* is the rest of the value with newline runs collapsed and trimmed.
C16_BareTagRemoved ==
    /\ (pc = "decodedraw" /\ BareTag(text))
           => /\ dimages = <<>>
              /\ dtext = Strip(CollapseNewlines(BeforeTag(text) \o AfterTag(text)))
    /\ (pc = "decodedraw" /\ ~HasTag(text) /\ Contains(text, <<"[", "I", "M", "G">>))
           => /\ dimages = <<>>
              /\ Contains(dtext, <<"[", "I", "M", "G">>)

\* C16 witness: a value whose tag is followed by a '[' was decoded
C16_Witness ==
    /\ pc = "decodedraw"
    /\ BareTag(text)
    /\ AfterTag(text) # <<>>

\* the characters of the path p are none of cs
CharsNotIn(p, cs) == \A i \in 1..Len(p) : p[i] \notin cs

\* no string is twice in the list q
NoDuplicates(q) == \A i, j \in 1..Len(q) : q[i] = q[j] => i = j

\* C17 as stated: for every cell value V and every list N, the text of
\* decode(merge(V, N)) is the text of decode(V).
C17_TextKeptAsStated ==
    pc = "remerged" => dtext = clean_text_content(text)

\* C17 amended: for every cell value V whose decoded text holds no [IMG] or
\* [IMGS] and every list N of paths without '[' and ']', the text of
\* decode(merge(V, N)) is the text of decode(V).
C17_TextKept ==
    ( /\ pc = "remerged"
      /\ ~HasTag(clean_text_content(text))
      /\ \A i \in 1..Len(images) : CharsNotIn(images[i], Brackets) )
        => dtext = clean_text_content(text)

\* C17 witness: new images were merged into a cell that held a text and
\* images, and the merged cell was decoded
C17_Witness ==
    /\ pc = "remerged"
    /\ images # <<>>
    /\ \A i \in 1..Len(images) : CharsNotIn(images[i], Brackets)
    /\ clean_text_content(text) # <<>>
    /\ ~HasTag(clean_text_content(text))
    /\ extract_image_paths(text) # <<>>
    /\ sheet[1][1] # text

\* C18: for every cell value V and every list N of relative or absolute
\* paths, the image list decoded from the cell after merge(V, N) holds no
\* string twice.  Checked for new paths without blanks, ';' and brackets.
C18_NoDuplicates ==
    ( /\ pc = "remerged"
      /\ images # <<>>
      /\ \A i \in 1..Len(images) :
             images[i] # <<>> /\ CharsNotIn(images[i], Brackets \cup {" ", ";", "\n"}) )
        => NoDuplicates(dimages)

(***************************************************************************)
(* Properties of the loaded grid.                                          *)
(***************************************************************************)
\* C20: after a successful load of a file with r data rows and c columns the
\* grid has max(100, r) rows of max(20, c) cells each, there are max(20, c)
\* headers, every parsed value is at its row and column, and every other
\* cell is the empty string.
C20_LoadedGrid ==
    (pc = "loaded" /\ arg \in DOMAIN books) =>
        LET df == read_excel(books[arg])
            r == Len(df.values)
            c == Len(df.columns)
            rows == IF r > 100 THEN r ELSE 100
            cols == IF c > 20 THEN c ELSE 20
        IN  /\ Len(sheet) = rows
            /\ \A i \in 1..rows : Len(sheet[i]) = cols
            /\ Len(headers) = cols
            /\ \A i \in 1..rows : \A j \in 1..cols :
                   sheet[i][j] = IF i <= r /\ j <= c /\ df.values[i][j] # NaN
                                 THEN df.values[i][j] ELSE <<>>

\* C20 witness: a workbook with more than 100 data rows and more than 20
\* columns was loaded, and the cell of row 101, column 21 holds its value
C20_Witness ==
    /\ pc = "loaded"
    /\ arg \in DOMAIN books
    /\ Len(read_excel(books[arg]).values) > 100
    /\ Len(read_excel(books[arg]).columns) > 20
    /\ sheet[101][21] = <<"v", "1", "1">>

(***************************************************************************)
(* Properties of the save.                                                 *)
(***************************************************************************)
\* the files of the directory d, none if there is no such directory
FilesOf(ds, d) == IF d \in DOMAIN ds THEN ds[d] ELSE EmptyDir

\* C21: a save leaves the asset store as it was, the sibling directory
\* holds a copy of every file of the store afterwards, and nothing else
\* changes but the workbook saved: the other files of the sibling directory,
\* the other directories, the other workbooks and the packages stay.
C21_SaveCopies ==
    [][(nops' = nops + 1 /\ pc' = "saved") =>
          LET d == ExcelAssetsDir(arg')
          IN  /\ assets' = assets
              /\ d \in DOMAIN dirs'
              /\ \A n \in DOMAIN assets :
                     n \in DOMAIN dirs'[d] /\ dirs'[d][n] = assets[n]
              /\ \A n \in DOMAIN FilesOf(dirs, d) \ DOMAIN assets :
                     n \in DOMAIN dirs'[d] /\ dirs'[d][n] = dirs[d][n]
              /\ DOMAIN dirs'[d] = DOMAIN FilesOf(dirs, d) \cup DOMAIN assets
              /\ \A e \in DOMAIN dirs \ {d} :
                     e \in DOMAIN dirs' /\ dirs'[e] = dirs[e]
              /\ \A b \in DOMAIN books \ {arg'} :
                     b \in DOMAIN books' /\ books'[b] = books[b]
              /\ zips' = zips]_vars

\* C21 witness: a save overwrote the pic.png of the sibling directory with
\* the store's and left old.png there
C21_Witness ==
    /\ pc = "saved"
    /\ PicPng \in DOMAIN assets
    /\ FilesOf(dirs, ExcelAssetsDir(arg))[PicPng] = assets[PicPng]
    /\ assets[PicPng] # OldSiblingDir[PicPng]
    /\ OldPng \in DOMAIN FilesOf(dirs, ExcelAssetsDir(arg))

(***************************************************************************)
(* Properties of the package import.                                       *)
(***************************************************************************)
\* C22: import_package never reports success in a run in which loading the
\* spreadsheet it located failed: when it has reported success, the package
\* holds a spreadsheet entry that is a readable workbook.
C22_FailedLoadNoSuccess ==
    (pc = "imported" /\ arg \in DOMAIN zips) =>
        \E n \in FirstExcelFiles(zips[arg]) : n \in DOMAIN zips[arg].books

(***************************************************************************)
(* Properties of the import of files into the store.                       *)
(***************************************************************************)
\* C23: an upload skips the paths that do not exist, stores one file for
\* every path that exists, and returns one stored path for each of them, in
\* the order given, each a path assets/<name> relative to the working
\* directory that names a file of the store.
C23_OneFilePerPath ==
    [][(nops' = nops + 1 /\ pc' = "uploaded") =>
          LET k == Len(import_log') - Len(import_log)
          IN  /\ Cardinality(DOMAIN assets' \ DOMAIN assets) = k
              /\ \A i \in 1..k :
                     LET pr == import_log'[Len(import_log) + i]
                     IN  /\ pr[1] \in DOMAIN SourceFiles
                         /\ Dirname(pr[2]) = AssetsDir
                         /\ Basename(pr[2]) \in DOMAIN assets']_vars

\* C24: after a successful package import current_file names no file of the
\* temporary directory the import removes on return, and no save writes
\* there.
C24_NotBoundToScratch ==
    /\ pc = "imported" => ~StartsWithAt(current_file, 1, TempDir)
    /\ pc = "saved" => ~StartsWithAt(arg, 1, TempDir)

(***************************************************************************)
(* Properties of a save followed by a load of the same path.               *)
(***************************************************************************)
\* C25 as stated: a save to P followed by a load of P leaves the store with
\* the set of files it had before the save.  Checked for a sibling directory
\* that holds the files of the store and no others.
C25_ReloadKeepsStore ==
    [][(/\ pc = "saved" /\ pc' = "loaded" /\ arg' = arg
        /\ DOMAIN FilesOf(dirs, ExcelAssetsDir(arg)) = DOMAIN assets)
           => DOMAIN assets' = DOMAIN assets]_vars

\* C25 amended: a save to P followed by a load of P keeps every file name of
\* the store and copies each file the store held under its name with a
\* timestamp, so that a store that is not empty holds more files afterwards.
C25_ReloadAddsCopies ==
    [][(pc = "saved" /\ pc' = "loaded" /\ arg' = arg)
           => /\ DOMAIN assets \subseteq DOMAIN assets'
              /\ \A f \in DOMAIN assets :
                     \E t \in 0..MaxClock : TimestampedName(f, t) \in DOMAIN assets'
              /\ assets # EmptyDir
                     => Cardinality(DOMAIN assets') > Cardinality(DOMAIN assets)]_vars

\* C25 witness: the path saved was loaded, and the store holds pic.png and
\* a copy of it under a name with a timestamp
C25_Witness ==
    /\ pc = "loaded"
    /\ arg \in DOMAIN saved_sheet
    /\ PicPng \in DOMAIN assets
    /\ \E t \in 0..MaxClock : TimestampedName(PicPng, t) \in DOMAIN assets

(***************************************************************************)
(* Properties of decoding the decoded text.                                *)
(***************************************************************************)
\* every '[' and ']' of s is the first or the last character of an [IMG] or
\* [IMGS] of s
OnlyTagBrackets(s) ==
    \A i \in 1..Len(s) :
        s[i] \in Brackets =>
            \E j \in 1..i :
                \/ StartsWithAt(s, j, TagIMG) /\ i \in {j, j + Len(TagIMG) - 1}
                \/ StartsWithAt(s, j, TagIMGS) /\ i \in {j, j + Len(TagIMGS) - 1}

BarCount(line) == Cardinality({ k \in 1..Len(line) : line[k] = "|" })

\* the images of the cell that exist
ExistingImages(cell_value) ==
    SelectSeq(extract_image_paths(cell_value),
              LAMBDA q : q \in ExistingPaths(assets))

\* the cell renders to nothing, to a text without a bar, or to one image
\* marker without a bar
OneItemCell(cell_value) ==
    LET txt == clean_text_content(cell_value)
        imgs == ExistingImages(cell_value)
    IN  /\ CharsNotIn(txt, {"|"})
        /\ \A k \in 1..Len(imgs) : CharsNotIn(Basename(imgs[k]), {"|"})
        /\ Len(imgs) <= 1
        /\ txt = <<>> \/ imgs = <<>>

\* the cell renders to a text and an image marker, or to two or more image
\* markers, or to a text with a bar
ManyItemCell(cell_value) ==
    \/ clean_text_content(cell_value) # <<>> /\ ExistingImages(cell_value) # <<>>
    \/ Len(ExistingImages(cell_value)) >= 2
    \/ ~CharsNotIn(clean_text_content(cell_value), {"|"})

\* C27 as stated: every data row rendered has as many slots between bars as
\* the grid has columns, whatever the cells hold.
C27_SlotsAreColumns ==
    pc = "rendered" =>
        \A r \in 1..Len(sheet) :
            RowHasContent(sheet[r]) =>
                BarCount(wiki[WikiLineOf(r)]) = Len(sheet[r]) + 1

\* C27 amended: the header row has as many slots as the grid has columns; a
\* data row has as many when each of its cells renders to nothing, to a text
\* without a bar or to one image marker, and it has more when one of its
\* cells renders to a text with an image marker, to two or more image
\* markers or to a text with a bar.
C27_SlotsOfOneItemRows ==
    pc = "rendered" =>
        /\ BarCount(wiki[2]) = 2 * (Len(headers) + 1)
        /\ \A r \in 1..Len(sheet) :
               RowHasContent(sheet[r]) =>
                   LET bars == BarCount(wiki[WikiLineOf(r)])
                       cols == Len(sheet[r])
                   IN  /\ bars >= cols + 1
                       /\ (\A c \in 1..cols : OneItemCell(sheet[r][c]))
                              => bars = cols + 1
                       /\ (\E c \in 1..cols : ManyItemCell(sheet[r][c]))
                              => bars > cols + 1

\* C27 witness: a grid was rendered whose first row holds a text with a bar
\* and whose second row holds one existing image
C27_Witness ==
    /\ pc = "rendered"
    /\ \E c \in 1..Len(sheet[1]) : sheet[1][c] = <<"x", "|", "y">>
    /\ \E c \in 1..Len(sheet[2]) : ExistingImages(sheet[2][c]) # <<>>
    /\ \A c \in 1..Len(sheet[2]) : OneItemCell(sheet[2][c])

====
